---- MODULE Spec2Model ----
(***************************************************************************)
(* Streaming piece commitment of the add_piece crate.                      *)
(*                                                                         *)
(*   CommitmentReader  (src/src/commitment_reader.rs)  64-byte windows,    *)
(*                     leaf hashes, pairwise reduction compute()           *)
(*   ChunksReader      (src/src/chunks_reader.rs)      chunk roots and the *)
(*                     sequential reduction finish()                       *)
(*   add_piece         (src/src/lib.rs)                validation,         *)
(*                     alignment, copy, result                             *)
(*                                                                         *)
(* Bytes are integers 0..255.  A Domain (hash value) is the sequence       *)
(* <<-1>> \o input \o <<-2>>: the hash is modelled as collision free, so   *)
(* two Domains are equal exactly when they were computed from the same     *)
(* input bytes in the same tree shape.  Memory read past the end of a      *)
(* slice is one of the values of Undef, or the read faults.                *)
(***************************************************************************)
EXTENDS Integers, Sequences, FiniteSets, TLC

VARIABLES
    srcPat,        \* source: which byte pattern the padded stream carries
    srcLen,        \* source: length of the padded stream in bytes
    srcPos,        \* source: bytes consumed so far
    buffer,        \* CommitmentReader.buffer: [u8; 64]
    buffer_pos,    \* CommitmentReader.buffer_pos
    current_tree,  \* CommitmentReader.current_tree: Vec<HashDomain>
    read_pos,      \* ChunksReader.read_pos
    chunk_size,    \* ChunksReader.chunk_size
    chunk_roots,   \* ChunksReader.chunk_roots
    out,           \* bytes the read calls have returned to the caller, in order
    kind,          \* which reader the caller drives: "acc", "chunks" or "piece"
    status,        \* "running", "finished" (finish() consumed it), "panicked"
    lastRet,       \* return value of the last read call, -1 before the first
    eof,           \* the source has returned 0 for a non-empty request
    computed,      \* outcome of the last compute() the caller issued
    result,        \* outcome of finish()
    irregular,     \* reads so far that moved fewer bytes than window and source allowed
    resets,        \* reset() calls the caller issued
    resetPos,      \* source position at construction or at the last reset()
    run,           \* 1 for the first ingestion of the stream, 2 for the repeated one
    prev,          \* outcome of finish() in the first ingestion
    pc,            \* add_piece: "idle", "copy", "done"
    piece_size,    \* add_piece: the declared unpadded size
    left_bytes,    \* add_piece: piece_alignment.left_bytes (unpadded)
    right_bytes,   \* add_piece: piece_alignment.right_bytes (unpadded)
    target,        \* add_piece: bytes written to the target, in order
    apResult       \* add_piece: what the call returned

vars == <<srcPat, srcLen, srcPos, buffer, buffer_pos, current_tree, read_pos,
          chunk_size, chunk_roots, out, kind, status, lastRet, eof,
          computed, result, irregular, resets, resetPos, run, prev, pc, piece_size,
          left_bytes, right_bytes, target, apResult>>

readerVars == <<buffer, buffer_pos, current_tree>>
chunkVars == <<read_pos, chunk_roots>>
pieceVars == <<pc, piece_size, left_bytes, right_bytes, target, apResult>>

----------------------------------------------------------------------------
(* Program constants *)

\* commitment_reader.rs:15  buffer: [u8; 64]
BUFFER_LEN == 64
\* commitment_reader.rs:32  if self.buffer_pos < 63 { return; }
HASH_THRESHOLD == 63
\* lib.rs:5  MINIMUM_RESERVED_BYTES_FOR_PIECE_IN_FULLY_ALIGNED_SECTOR
MINIMUM_PIECE_SIZE == 127
\* lib.rs:84  const CHUNK_SIZE: usize = 64 * 1024 * 1024, scaled to four
\* windows: still a power of two, a multiple of 64 and larger than the
\* smallest padded piece (128)
CHUNK_SIZE == 256
\* lib.rs:103  io::copy reads into a buffer of at least this many bytes
DEFAULT_BUF_SIZE == 8192

(* Bounds of the model *)

\* longest stream the caller of a bare reader feeds, in 64-byte windows
MaxLeaves == 4
\* reads per ingestion that move fewer bytes than window and source allow
MaxIrregular == 1
\* reset() calls a caller of the bare accumulator issues
MaxResets == 1

Min(a, b) == IF a < b THEN a ELSE b

----------------------------------------------------------------------------
(* The hash and the source stream *)

\* <DefaultPieceHasher as Hasher>::Function::hash, collision free
Hash(bytes) == <<-1>> \o bytes \o <<-2>>

\* what a read past the end of a slice can find in memory
Undef == {<<-3>>, <<-4>>}

NoOutcome == [kind |-> "none", value |-> <<>>]
Returned(d) == [kind |-> "ok", value |-> d]
Panicked == [kind |-> "panic", value |-> <<>>]
Faulted == [kind |-> "fault", value |-> <<>>]

\* "ones": every byte 255, as in the tests' vec![255u8; ..]; "ramp": byte i
\* is 1 + i mod 255, so that a moved, lost or stale byte shows
Patterns == {"ones", "ramp"}

\* byte i (from 0) of the padded stream
SrcByte(pat, i) == IF pat = "ones" THEN 255 ELSE 1 + (i % 255)

SrcBytes(pat, lo, n) == [j \in 1..n |-> SrcByte(pat, lo + j - 1)]

\* what source.read(&mut window) may return for a window of n bytes: 0 at
\* end of stream or for an empty window, otherwise at least one byte and at
\* most what is there
SourceReturns(pos, len, n) ==
    LET m == Min(n, len - pos)
    IN  IF m <= 0 THEN {0} ELSE {1, m - 1, m} \ {0}

----------------------------------------------------------------------------
(* CommitmentReader *)

\* try_hash that appends the leaf and leaves the cursor where it is
try_hash_NoCursorReset(buf, pos, tree) ==
    IF pos < HASH_THRESHOLD
    THEN [buffer_pos |-> pos, current_tree |-> tree]
    ELSE [buffer_pos |-> pos, current_tree |-> Append(tree, Hash(buf))]

\* try_hash: the state after it, given the buffer and cursor before it
try_hash(buf, pos, tree) ==
    IF pos < HASH_THRESHOLD
    THEN [buffer_pos |-> pos, current_tree |-> tree]
    ELSE [buffer_pos |-> 0, current_tree |-> Append(tree, Hash(buf))]

\* read that copies from the start of the buffer instead of from the cursor
CommitmentRead_FromBufferStart(buf, pos, tree, sPat, sPos, destLen, k) ==
    LET filled == [i \in 1..BUFFER_LEN |->
                     IF i > pos /\ i <= pos + k
                     THEN SrcByte(sPat, sPos + (i - pos) - 1)
                     ELSE buf[i]]
        hashed == try_hash(filled, pos + k, tree)
    IN  [buffer |-> filled,
         buffer_pos |-> hashed.buffer_pos,
         current_tree |-> hashed.current_tree,
         bytes |-> SubSeq(filled, 1, k),
         r |-> k]

\* read(buf) with buf.len() = destLen when the source returns k bytes
CommitmentRead(buf, pos, tree, sPat, sPos, destLen, k) ==
    LET start == pos
        filled == [i \in 1..BUFFER_LEN |->
                     IF i > start /\ i <= start + k
                     THEN SrcByte(sPat, sPos + (i - start) - 1)
                     ELSE buf[i]]
        hashed == try_hash(filled, pos + k, tree)
    IN  [buffer |-> filled,
         buffer_pos |-> hashed.buffer_pos,
         current_tree |-> hashed.current_tree,
         bytes |-> SubSeq(filled, start + 1, start + k),
         r |-> k]

\* a failed read that had already moved the cursor on by the window
CommitmentReadError_CursorAdvanced(buf, pos, tree, destLen) ==
    LET hashed == try_hash(buf, pos + Min(BUFFER_LEN - pos, destLen), tree)
    IN  [buffer |-> buf,
         buffer_pos |-> hashed.buffer_pos,
         current_tree |-> hashed.current_tree]

\* read(buf) when source.read returns Err: the `?` returns the error before
\* buffer, buffer_pos or current_tree are touched
CommitmentReadError(buf, pos, tree, destLen) ==
    [buffer |-> buf, buffer_pos |-> pos, current_tree |-> tree]

\* the window of the buffer that read offers the source
ReadWindow(pos, destLen) == Min(BUFFER_LEN - pos, destLen)

\* the 64 bytes a chunk of the row is hashed as: a chunk of two Domains is
\* their bytes; a last chunk of one Domain is read 32 bytes past its end
PairBytes(row, i, g) ==
    IF 2 * i <= Len(row) THEN row[2 * i - 1] \o row[2 * i] ELSE row[2 * i - 1] \o g

\* compute_row: the chunks are hashed in the order `order` (a sequence of
\* the chunk indices) and each result is collected at its chunk's index
RECURSIVE CollectInto(_, _, _, _)
CollectInto(acc, row, order, g) ==
    IF order = <<>> THEN acc
    ELSE CollectInto([acc EXCEPT ![Head(order)] = Hash(PairBytes(row, Head(order), g))],
                     row, Tail(order), g)

NumChunks(row) == (Len(row) + 1) \div 2

Ascending(n) == [i \in 1..n |-> i]
Descending(n) == [i \in 1..n |-> n + 1 - i]

compute_row(row, order, g) ==
    CollectInto([i \in 1..NumChunks(row) |-> <<>>], row, order, g)

\* rows of odd length make the last chunk read past the end of the row
RECURSIVE ReadsPastEnd(_)
ReadsPastEnd(row) ==
    IF Len(row) <= 1 THEN FALSE
    ELSE (Len(row) % 2 = 1) \/ ReadsPastEnd([i \in 1..NumChunks(row) |-> <<>>])

\* while current_row.len() > 1 { current_row = compute_row(&current_row) }
RECURSIVE ReduceRows(_, _, _)
ReduceRows(row, desc, g) ==
    IF Len(row) <= 1 THEN row
    ELSE ReduceRows(compute_row(row, IF desc THEN Descending(NumChunks(row))
                                             ELSE Ascending(NumChunks(row)), g),
                    desc, g)

\* compute(): compute_row once on the Leaf Level, then the loop, then pop
compute(tree, desc, g) ==
    LET first == compute_row(tree, IF desc THEN Descending(NumChunks(tree))
                                          ELSE Ascending(NumChunks(tree)), g)
        last == ReduceRows(first, desc, g)
    IN  IF Len(last) = 1 THEN Returned(last[1]) ELSE Panicked

\* compute() reads past the end of a row when the Leaf Level or a later row
\* has odd length (a Leaf Level of one Domain included)
ComputeReadsPastEnd(tree) ==
    (Len(tree) % 2 = 1) \/ ReadsPastEnd([i \in 1..NumChunks(tree) |-> <<>>])

\* every outcome compute() can have on a Leaf Level
ComputeOutcomes(tree) ==
    {compute(tree, desc, g) : desc \in BOOLEAN, g \in Undef}
    \cup (IF ComputeReadsPastEnd(tree) THEN {Faulted} ELSE {})

----------------------------------------------------------------------------
(* ChunksReader *)

\* finish(): the sequential loop over chunk_roots, then next().expect(..)
finish(roots, g) ==
    LET last == ReduceRows(roots, FALSE, g)
    IN  IF Len(last) = 1 THEN Returned(last[1]) ELSE Panicked

FinishOutcomes(roots) ==
    {finish(roots, g) : g \in Undef}
    \cup (IF ReadsPastEnd(roots) THEN {Faulted} ELSE {})

\* the chunk is finalized at the start of this read
AtBoundary(rpos, csize) == rpos >= csize

----------------------------------------------------------------------------
(* The reference tree *)

IsPow2(n) == n \in {1, 2, 4, 8, 16, 32, 64, 128, 256, 512, 1024, 2048}

\* root of the binary Merkle tree over the n windows (n a power of two) of
\* the stream that start at byte lo
RECURSIVE MerkleRoot(_, _, _)
MerkleRoot(pat, lo, n) ==
    IF n = 1 THEN Hash(SrcBytes(pat, lo, BUFFER_LEN))
    ELSE Hash(MerkleRoot(pat, lo, n \div 2)
              \o MerkleRoot(pat, lo + (n \div 2) * BUFFER_LEN, n \div 2))

----------------------------------------------------------------------------
(* A caller driving a bare CommitmentReader or ChunksReader *)

StreamLens == {BUFFER_LEN * n : n \in 0..MaxLeaves}
ChunkSizes == {64, 128, 256}
DestLens == {0, 1, 63, 64, DEFAULT_BUF_SIZE}

NoPiece ==
    /\ pc = "idle" /\ piece_size = 0 /\ left_bytes = 0 /\ right_bytes = 0
    /\ target = <<>> /\ apResult = [kind |-> "none", commitment |-> <<>>, size |-> 0, written |-> 0]

FreshReader ==
    /\ srcPos = 0
    /\ buffer = [i \in 1..BUFFER_LEN |-> 0]
    /\ buffer_pos = 0
    /\ current_tree = <<>>
    /\ read_pos = 0
    /\ chunk_roots = <<>>
    /\ out = <<>>
    /\ status = "running"
    /\ lastRet = -1
    /\ eof = FALSE
    /\ computed = NoOutcome
    /\ result = NoOutcome
    /\ irregular = 0
    /\ resets = 0
    /\ resetPos = 0

Init ==
    /\ srcPat = "ramp"
    /\ srcLen \in StreamLens
    /\ kind \in {"acc", "chunks"}
    /\ chunk_size \in (IF kind = "chunks" THEN ChunkSizes ELSE {0})
    /\ FreshReader
    /\ run = 1
    /\ prev = NoOutcome
    /\ NoPiece

\* a read that moves k bytes counts as irregular when window and source
\* would have allowed more
IsIrregular(pos, k) == k > 0 /\ k < Min(BUFFER_LEN - pos, srcLen - srcPos)

\* CommitmentReader::read on the bare accumulator
AccRead(destLen, k) ==
    /\ kind = "acc" /\ status = "running"
    /\ k \in SourceReturns(srcPos, srcLen, ReadWindow(buffer_pos, destLen))
    /\ IsIrregular(buffer_pos, k) => irregular < MaxIrregular
    /\ LET rd == CommitmentRead(buffer, buffer_pos, current_tree, srcPat, srcPos, destLen, k)
       IN  /\ buffer' = rd.buffer
           /\ buffer_pos' = rd.buffer_pos
           /\ current_tree' = rd.current_tree
           /\ out' = out \o rd.bytes
           /\ lastRet' = rd.r
    /\ srcPos' = srcPos + k
    /\ eof' = (eof \/ (k = 0 /\ ReadWindow(buffer_pos, destLen) > 0))
    /\ irregular' = IF IsIrregular(buffer_pos, k) THEN irregular + 1 ELSE irregular
    /\ UNCHANGED <<srcPat, srcLen, chunkVars, chunk_size, kind, status, computed,
                   result, resets, resetPos, run, prev, pieceVars>>

\* CommitmentReader::compute on the bare accumulator
AccCompute(o) ==
    /\ kind = "acc" /\ status = "running"
    /\ o \in ComputeOutcomes(current_tree)
    /\ computed' = o
    /\ status' = IF o.kind = "ok" THEN "running" ELSE "panicked"
    /\ UNCHANGED <<srcPat, srcLen, srcPos, readerVars, chunkVars, chunk_size, out, kind,
                   lastRet, eof, result, irregular, resets, resetPos, run, prev, pieceVars>>

\* CommitmentReader::reset on the bare accumulator
AccReset ==
    /\ kind = "acc" /\ status = "running"
    /\ resets < MaxResets
    /\ buffer_pos' = 0
    /\ current_tree' = <<>>
    /\ resets' = resets + 1
    /\ resetPos' = srcPos
    /\ UNCHANGED <<srcPat, srcLen, srcPos, buffer, chunkVars, chunk_size, out, kind, status,
                   lastRet, eof, computed, result, irregular, run, prev, pieceVars>>

\* ChunksReader::read when compute() at the chunk boundary ends the call
ChunksReaderAbort(o) ==
    /\ status = "running"
    /\ AtBoundary(read_pos, chunk_size)
    /\ o \in ComputeOutcomes(current_tree)
    /\ o.kind # "ok"
    /\ read_pos' = 0
    /\ computed' = o
    /\ status' = "panicked"
    /\ UNCHANGED <<srcPat, srcLen, srcPos, readerVars, chunk_roots, chunk_size, out, kind,
                   lastRet, eof, irregular, resets, resetPos, run, prev>>

ChunksReadAbort(o) ==
    /\ kind = "chunks"
    /\ ChunksReaderAbort(o)
    /\ UNCHANGED <<result, pieceVars>>

\* a boundary test that pushes the chunk root and leaves read_pos as it is
AfterBoundary_ReadPosKept(rpos, csize, roots, pos, tree, o) ==
    IF AtBoundary(rpos, csize)
    THEN [read_pos |-> rpos, chunk_roots |-> Append(roots, o.value),
          buffer_pos |-> 0, current_tree |-> <<>>]
    ELSE [read_pos |-> rpos, chunk_roots |-> roots,
          buffer_pos |-> pos, current_tree |-> tree]

\* the Aggregator's state after the boundary test of read, given compute()'s
\* Domain o
AfterBoundary(rpos, csize, roots, pos, tree, o) ==
    IF AtBoundary(rpos, csize)
    THEN [read_pos |-> 0, chunk_roots |-> Append(roots, o.value),
          buffer_pos |-> 0, current_tree |-> <<>>]
    ELSE [read_pos |-> rpos, chunk_roots |-> roots,
          buffer_pos |-> pos, current_tree |-> tree]

\* ChunksReader::read that returns: the boundary test, then the
\* Accumulator's read of k bytes into a dest of destLen bytes
ChunksReaderRead(destLen, k, o) ==
    /\ status = "running"
    /\ IF AtBoundary(read_pos, chunk_size)
       THEN o \in ComputeOutcomes(current_tree) /\ o.kind = "ok"
       ELSE o = NoOutcome
    /\ LET ab == AfterBoundary(read_pos, chunk_size, chunk_roots, buffer_pos, current_tree, o)
           rd == CommitmentRead(buffer, ab.buffer_pos, ab.current_tree, srcPat, srcPos, destLen, k)
       IN  /\ k \in SourceReturns(srcPos, srcLen, ReadWindow(ab.buffer_pos, destLen))
           /\ IsIrregular(ab.buffer_pos, k) => irregular < MaxIrregular
           /\ irregular' = IF IsIrregular(ab.buffer_pos, k) THEN irregular + 1 ELSE irregular
           /\ eof' = (eof \/ (k = 0 /\ ReadWindow(ab.buffer_pos, destLen) > 0))
           /\ buffer' = rd.buffer
           /\ buffer_pos' = rd.buffer_pos
           /\ current_tree' = rd.current_tree
           /\ chunk_roots' = ab.chunk_roots
           /\ read_pos' = ab.read_pos + rd.r
           /\ out' = out \o rd.bytes
           /\ lastRet' = rd.r
    /\ srcPos' = srcPos + k
    /\ computed' = IF o = NoOutcome THEN computed ELSE o
    /\ UNCHANGED <<srcPat, srcLen, chunk_size, kind, status, resets, resetPos, run, prev>>

\* a caller's read call on a bare ChunksReader
ChunksRead(destLen, k, o) ==
    /\ kind = "chunks"
    /\ ChunksReaderRead(destLen, k, o)
    /\ UNCHANGED <<result, pieceVars>>

\* ChunksReader::finish
ChunksFinish(o) ==
    /\ kind = "chunks" /\ status = "running"
    /\ o \in FinishOutcomes(chunk_roots)
    /\ result' = o
    /\ status' = IF o.kind = "ok" THEN "finished" ELSE "panicked"
    /\ UNCHANGED <<srcPat, srcLen, srcPos, readerVars, chunkVars, chunk_size, out, kind,
                   lastRet, eof, computed, irregular, resets, resetPos, run, prev, pieceVars>>

\* ChunksReader::new over the same stream with the same chunk size, after a
\* first ingestion has finished: the repeated ingestion
Rerun ==
    /\ kind = "chunks" /\ status = "finished" /\ run = 1
    /\ eof
    /\ run' = 2
    /\ prev' = result
    /\ srcPos' = 0
    /\ buffer' = [i \in 1..BUFFER_LEN |-> 0]
    /\ buffer_pos' = 0
    /\ current_tree' = <<>>
    /\ read_pos' = 0
    /\ chunk_roots' = <<>>
    /\ out' = <<>>
    /\ status' = "running"
    /\ lastRet' = -1
    /\ eof' = FALSE
    /\ computed' = NoOutcome
    /\ result' = NoOutcome
    /\ irregular' = 0
    /\ resets' = 0
    /\ resetPos' = 0
    /\ UNCHANGED <<srcPat, srcLen, chunk_size, kind, pieceVars>>

\* the outcomes of the compute() that a read of the Aggregator starts with
BoundaryOutcomes ==
    IF AtBoundary(read_pos, chunk_size) THEN ComputeOutcomes(current_tree) ELSE {NoOutcome}

\* the cursor the Accumulator's read starts from inside the Aggregator's read
CursorAfterBoundary == IF AtBoundary(read_pos, chunk_size) THEN 0 ELSE buffer_pos

Next ==
    \/ \E d \in DestLens :
          \E k \in SourceReturns(srcPos, srcLen, ReadWindow(buffer_pos, d)) : AccRead(d, k)
    \/ \E o \in ComputeOutcomes(current_tree) : AccCompute(o)
    \/ AccReset
    \/ \E o \in BoundaryOutcomes : ChunksReadAbort(o)
    \/ \E d \in DestLens, o \in BoundaryOutcomes :
          \E k \in SourceReturns(srcPos, srcLen, ReadWindow(CursorAfterBoundary, d)) :
             ChunksRead(d, k, o)
    \/ \E o \in FinishOutcomes(chunk_roots) : ChunksFinish(o)

Spec == Init /\ [][Next]_vars

----------------------------------------------------------------------------
(* The same stream ingested twice through a ChunksReader *)

\* longest stream of the repeated ingestion, in 64-byte windows
MaxRepeatLeaves == 4

InitRepeat ==
    /\ srcPat \in Patterns
    /\ srcLen \in {BUFFER_LEN * n : n \in 0..MaxRepeatLeaves}
    /\ kind = "chunks"
    /\ chunk_size \in ChunkSizes
    /\ FreshReader
    /\ run = 1
    /\ prev = NoOutcome
    /\ NoPiece

\* what a read moves when dest is large and the source gives all it has
FullRead == Min(BUFFER_LEN - CursorAfterBoundary, srcLen - srcPos)

\* both ingestions are fed in the same way: every read is a full one
NextRepeat ==
    \/ \E o \in BoundaryOutcomes : ChunksReadAbort(o)
    \/ \E o \in BoundaryOutcomes : ChunksRead(DEFAULT_BUF_SIZE, FullRead, o)
    \/ \E o \in FinishOutcomes(chunk_roots) : ChunksFinish(o)
    \/ Rerun

SpecRepeat == InitRepeat /\ [][NextRepeat]_vars

----------------------------------------------------------------------------
(* A source that fails *)

\* what lastRet holds after a read call that returned Err
ReadErr == 0 - 2

\* the fields of the ChunksReader and its CommitmentReader after a read that
\* returns: the boundary test, then the inner read of k bytes
ChunksReadState(rpos, roots, buf, pos, tree, sPos, destLen, k, o) ==
    LET ab == AfterBoundary(rpos, chunk_size, roots, pos, tree, o)
        rd == CommitmentRead(buf, ab.buffer_pos, ab.current_tree, srcPat, sPos, destLen, k)
    IN  [read_pos |-> ab.read_pos + rd.r,
         chunk_roots |-> ab.chunk_roots,
         buffer |-> rd.buffer,
         buffer_pos |-> rd.buffer_pos,
         current_tree |-> rd.current_tree,
         bytes |-> rd.bytes,
         r |-> rd.r]

\* CommitmentReader::read on the bare accumulator when the source fails
AccReadError(destLen) ==
    /\ kind = "acc" /\ status = "running"
    /\ LET rd == CommitmentReadError(buffer, buffer_pos, current_tree, destLen)
       IN  /\ buffer' = rd.buffer
           /\ buffer_pos' = rd.buffer_pos
           /\ current_tree' = rd.current_tree
    /\ lastRet' = ReadErr
    /\ UNCHANGED <<srcPat, srcLen, srcPos, chunkVars, chunk_size, out, kind, status, eof,
                   computed, result, irregular, resets, resetPos, run, prev, pieceVars>>

\* ChunksReader::read when the source fails: the boundary test and the
\* finalization come before the inner read, whose error `?` returns
ChunksReadError(destLen, o) ==
    /\ kind = "chunks" /\ status = "running"
    /\ IF AtBoundary(read_pos, chunk_size)
       THEN o \in ComputeOutcomes(current_tree) /\ o.kind = "ok"
       ELSE o = NoOutcome
    /\ LET ab == AfterBoundary(read_pos, chunk_size, chunk_roots, buffer_pos, current_tree, o)
           rd == CommitmentReadError(buffer, ab.buffer_pos, ab.current_tree, destLen)
       IN  /\ buffer' = rd.buffer
           /\ buffer_pos' = rd.buffer_pos
           /\ current_tree' = rd.current_tree
           /\ chunk_roots' = ab.chunk_roots
           /\ read_pos' = ab.read_pos
    /\ lastRet' = ReadErr
    /\ computed' = IF o = NoOutcome THEN computed ELSE o
    /\ UNCHANGED <<srcPat, srcLen, srcPos, chunk_size, out, kind, status, eof,
                   result, irregular, resets, resetPos, run, prev, pieceVars>>

\* longest stream read from a failing source, in 64-byte windows
MaxIoLeaves == 2

InitIo ==
    /\ srcPat = "ramp"
    /\ srcLen \in {BUFFER_LEN * n : n \in 0..MaxIoLeaves}
    /\ kind \in {"acc", "chunks"}
    /\ chunk_size \in (IF kind = "chunks" THEN ChunkSizes ELSE {0})
    /\ FreshReader
    /\ run = 1
    /\ prev = NoOutcome
    /\ NoPiece

\* the reads of both readers over a source that may fail on any call
NextIo ==
    \/ \E d \in DestLens :
          \E k \in SourceReturns(srcPos, srcLen, ReadWindow(buffer_pos, d)) : AccRead(d, k)
    \/ \E d \in DestLens : AccReadError(d)
    \/ \E o \in ComputeOutcomes(current_tree) : AccCompute(o)
    \/ \E o \in BoundaryOutcomes : ChunksReadAbort(o)
    \/ \E d \in DestLens, o \in BoundaryOutcomes :
          \E k \in SourceReturns(srcPos, srcLen, ReadWindow(CursorAfterBoundary, d)) :
             ChunksRead(d, k, o)
    \/ \E d \in DestLens, o \in BoundaryOutcomes : ChunksReadError(d, o)
    \/ \E o \in FinishOutcomes(chunk_roots) : ChunksFinish(o)

SpecIo == InitIo /\ [][NextIo]_vars

----------------------------------------------------------------------------
(* add_piece *)

\* PaddedBytesAmount::from(UnpaddedBytesAmount): 254 data bits fill a
\* 256-bit element, a trailing partial element is kept as it is, and the
\* byte count is rounded up
ToPadded(u) ==
    LET bits == ((u * 8) \div 254) * 256 + ((u * 8) % 254)
    IN  (bits + 7) \div 8

\* UnpaddedBytesAmount::from(PaddedBytesAmount): the inverse map, rounded down
ToUnpadded(p) ==
    LET bits == ((p * 8) \div 256) * 254 + ((p * 8) % 256)
    IN  bits \div 8

\* ensure_piece_size without its second test
ensure_piece_size_MinimumOnly(ps) == ps >= MINIMUM_PIECE_SIZE

\* ensure_piece_size: TRUE when it returns Ok
ensure_piece_size(ps) ==
    /\ ps >= MINIMUM_PIECE_SIZE
    /\ IsPow2(ToPadded(ps))

Zeros(n) == [i \in 1..n |-> 0]

PieceSizes == {0, 126, 127, 128, 254, 508}
PieceStreamLens == {0, 64, 127, 128, 129, 256, 512}
\* what get_piece_alignment returns for a piece of 127 * 2^k bytes in a
\* sector: multiples of the smallest piece
Alignments == {0, 127}

NoResult == [kind |-> "none", commitment |-> <<>>, size |-> 0, written |-> 0]
Failed(k) == [kind |-> k, commitment |-> <<>>, size |-> 0, written |-> 0]

InitPiece ==
    /\ srcPat \in Patterns
    /\ srcLen \in PieceStreamLens
    /\ kind = "piece"
    /\ chunk_size = CHUNK_SIZE
    /\ FreshReader
    /\ run = 1
    /\ prev = NoOutcome
    /\ pc = "idle"
    /\ piece_size \in PieceSizes
    /\ left_bytes = 0
    /\ right_bytes = 0
    /\ target = <<>>
    /\ apResult = NoResult

harnessVars == <<srcPat, srcLen, srcPos, readerVars, chunkVars, chunk_size, out, kind,
                 status, lastRet, eof, computed, result, irregular, resets, resetPos, run, prev>>

\* add_piece up to its first return: ensure_piece_size fails
AddPieceReject ==
    /\ kind = "piece" /\ pc = "idle"
    /\ ~ensure_piece_size(piece_size)
    /\ apResult' = Failed("err_size")
    /\ pc' = "done"
    /\ UNCHANGED <<harnessVars, piece_size, left_bytes, right_bytes, target>>

\* add_piece from the start to the call of io::copy: the size is accepted,
\* the alignment is l and r, the left alignment is written, the
\* ChunksReader is built
AddPieceStart(l, r) ==
    /\ kind = "piece" /\ pc = "idle"
    /\ ensure_piece_size(piece_size)
    /\ left_bytes' = l
    /\ right_bytes' = r
    /\ target' = target \o Zeros(ToPadded(l))
    /\ pc' = "copy"
    /\ UNCHANGED <<harnessVars, piece_size, apResult>>

\* one round of io::copy: a read of the ChunksReader that returns k > 0
\* bytes, written to the target
CopyStep(k, o) ==
    /\ kind = "piece" /\ pc = "copy"
    /\ k > 0
    /\ ChunksReaderRead(DEFAULT_BUF_SIZE, k, o)
    /\ target' = target \o SubSeq(out', Len(out) + 1, Len(out'))
    /\ UNCHANGED <<result, pc, piece_size, left_bytes, right_bytes, apResult>>

\* a read of io::copy in which compute() at the chunk boundary panics or faults
CopyPanic(o) ==
    /\ kind = "piece" /\ pc = "copy"
    /\ ChunksReaderAbort(o)
    /\ apResult' = Failed("panic")
    /\ pc' = "done"
    /\ UNCHANGED <<result, piece_size, left_bytes, right_bytes, target>>

\* the source or the target fails during io::copy
CopyIoError ==
    /\ kind = "piece" /\ pc = "copy"
    /\ apResult' = Failed("err_io")
    /\ pc' = "done"
    /\ UNCHANGED <<harnessVars, piece_size, left_bytes, right_bytes, target>>

OkResult(n, fo) ==
    [kind |-> "ok", commitment |-> fo.value, size |-> ToUnpadded(n),
     written |-> left_bytes + right_bytes + piece_size]

\* the rest of add_piece without the comparison of n with piece_size
AfterCopy_NoSizeCheck(n, fo) ==
    IF n = 0 THEN [res |-> Failed("err_empty"), zeros |-> 0, fin |-> NoOutcome]
    ELSE IF fo.kind # "ok"
    THEN [res |-> Failed("panic"), zeros |-> ToPadded(right_bytes), fin |-> fo]
    ELSE [res |-> OkResult(n, fo), zeros |-> ToPadded(right_bytes), fin |-> fo]

\* the rest of add_piece without the test for n = 0
AfterCopy_NoEmptyCheck(n, fo) ==
    IF ToUnpadded(n) # piece_size
    THEN [res |-> Failed("err_mismatch"), zeros |-> 0, fin |-> NoOutcome]
    ELSE IF fo.kind # "ok"
    THEN [res |-> Failed("panic"), zeros |-> ToPadded(right_bytes), fin |-> fo]
    ELSE [res |-> OkResult(n, fo), zeros |-> ToPadded(right_bytes), fin |-> fo]

\* the rest of add_piece with the right alignment written in unpadded units
AfterCopy_UnpaddedRightAlignment(n, fo) ==
    IF n = 0 THEN [res |-> Failed("err_empty"), zeros |-> 0, fin |-> NoOutcome]
    ELSE IF ToUnpadded(n) # piece_size
    THEN [res |-> Failed("err_mismatch"), zeros |-> 0, fin |-> NoOutcome]
    ELSE IF fo.kind # "ok"
    THEN [res |-> Failed("panic"), zeros |-> right_bytes, fin |-> fo]
    ELSE [res |-> OkResult(n, fo), zeros |-> right_bytes, fin |-> fo]

\* add_piece after io::copy returned n: the two checks, the right
\* alignment, finish() with outcome fo, the result
AfterCopy(n, fo) ==
    IF n = 0 THEN [res |-> Failed("err_empty"), zeros |-> 0, fin |-> NoOutcome]
    ELSE IF ToUnpadded(n) # piece_size
    THEN [res |-> Failed("err_mismatch"), zeros |-> 0, fin |-> NoOutcome]
    ELSE IF fo.kind # "ok"
    THEN [res |-> Failed("panic"), zeros |-> ToPadded(right_bytes), fin |-> fo]
    ELSE [res |-> OkResult(n, fo), zeros |-> ToPadded(right_bytes), fin |-> fo]

\* the last round of io::copy (the read returns 0) and the rest of add_piece
CopyEnd(o, fo) ==
    /\ kind = "piece" /\ pc = "copy"
    /\ ChunksReaderRead(DEFAULT_BUF_SIZE, 0, o)
    /\ fo \in FinishOutcomes(chunk_roots')
    /\ LET ac == AfterCopy(Len(out), fo)
       IN  /\ apResult' = ac.res
           /\ target' = target \o Zeros(ac.zeros)
           /\ result' = ac.fin
    /\ pc' = "done"
    /\ UNCHANGED <<piece_size, left_bytes, right_bytes>>

NextPiece ==
    \/ AddPieceReject
    \/ \E l \in Alignments, r \in Alignments : AddPieceStart(l, r)
    \/ \E o \in BoundaryOutcomes :
          \E k \in SourceReturns(srcPos, srcLen, ReadWindow(CursorAfterBoundary, DEFAULT_BUF_SIZE)) :
             CopyStep(k, o)
    \/ \E o \in BoundaryOutcomes : CopyPanic(o)
    \/ CopyIoError
    \/ \E o \in BoundaryOutcomes :
          \E fo \in FinishOutcomes(IF o.kind = "ok" THEN Append(chunk_roots, o.value)
                                                    ELSE chunk_roots) : CopyEnd(o, fo)

SpecPiece == InitPiece /\ [][NextPiece]_vars

----------------------------------------------------------------------------
(* Properties *)

\* the Leaf Level of the stream: one leaf per 64-byte window
StreamLeaves(pat, len) ==
    [i \in 1..(len \div BUFFER_LEN) |-> Hash(SrcBytes(pat, (i - 1) * BUFFER_LEN, BUFFER_LEN))]

\* add_piece returned after io::copy returned (the copy was not cut short
\* by an I/O error or a panic)
CopyReturned == kind = "piece" /\ pc = "done" /\ eof

\* C1: for every piece size that passes validation, add_piece on a source
\* that yields exactly the piece's padded bytes (here: in full reads, without
\* I/O error) returns a Piece Info whose commitment is the root of the
\* reference Merkle tree over the padded bytes.
C1_AcceptedPieceReturnsReferenceRoot ==
    (/\ kind = "piece" /\ pc = "done"
     /\ piece_size >= MINIMUM_PIECE_SIZE /\ IsPow2(ToPadded(piece_size))
     /\ srcLen = ToPadded(piece_size)
     /\ irregular = 0
     /\ apResult.kind # "err_io")
    => /\ apResult.kind = "ok"
       /\ apResult.commitment = MerkleRoot(srcPat, 0, srcLen \div BUFFER_LEN)

\* C2: for a stream of power-of-two length and a chunk size that is a
\* multiple of 64 and divides the stream, the Aggregator's finish() after
\* the stream was read to its end (here: in full reads) returns what
\* compute() returns on the unchunked Leaf Level of the stream.
C2_ChunkedEqualsUnchunked ==
    (/\ kind = "chunks" /\ status = "finished" /\ eof
     /\ irregular = 0
     /\ srcLen > 0 /\ IsPow2(srcLen)
     /\ chunk_size % BUFFER_LEN = 0 /\ srcLen % chunk_size = 0)
    => result \in ComputeOutcomes(StreamLeaves(srcPat, srcLen))

\* C3: once a stream of 64 * 2^k bytes (k >= 1) has been read to its end
\* through an Accumulator, compute() returns the root of the Merkle tree
\* over the stream's 64-byte windows.
C3_ComputeIsMerkleRoot ==
    (/\ kind = "acc" /\ status = "running" /\ eof /\ resets = 0
     /\ srcLen >= 2 * BUFFER_LEN /\ IsPow2(srcLen))
    => ComputeOutcomes(current_tree)
         = {Returned(MerkleRoot(srcPat, 0, srcLen \div BUFFER_LEN))}

\* C4: a piece size below the minimum, or whose padded size is not a power
\* of two, makes add_piece return the invalid-size error, and nothing is
\* ever written to the target or read from the source.
C4_InvalidSizeRejectedBeforeIo ==
    (kind = "piece" /\ (piece_size < MINIMUM_PIECE_SIZE \/ ~IsPow2(ToPadded(piece_size))))
    => /\ target = <<>>
       /\ srcPos = 0
       /\ out = <<>>
       /\ pc \in {"idle", "done"}
       /\ pc = "done" => apResult.kind = "err_size"

C4_Witness ==
    /\ kind = "piece" /\ pc = "done"
    /\ piece_size = 128 /\ srcLen = 129
    /\ apResult.kind = "err_size"

\* C5 as stated: a Piece Info is returned only when the padded bytes copied
\* equal the expected padded size, and whenever the copy returns a
\* different count the error is the size-mismatch error.
C5_AnyDifferenceIsSizeMismatch ==
    CopyReturned =>
      /\ apResult.kind = "ok" => Len(out) = ToPadded(piece_size)
      /\ Len(out) # ToPadded(piece_size) =>
            apResult.kind = "err_mismatch" /\ apResult.commitment = <<>>

\* C5 amended: a Piece Info is returned only when the padded bytes copied
\* equal the expected padded size; when the copy returns a different count
\* the error is the size-mismatch error if the count is not zero and the
\* short-read error if it is zero; finish() is not called and no commitment
\* is returned on either path.
C5_DifferenceIsMismatchOrShortRead ==
    /\ (kind = "piece" /\ apResult.kind = "ok") =>
         CopyReturned /\ Len(out) = ToPadded(piece_size)
    /\ (CopyReturned /\ Len(out) # ToPadded(piece_size)) =>
         /\ apResult.kind = (IF Len(out) = 0 THEN "err_empty" ELSE "err_mismatch")
         /\ apResult.commitment = <<>>
         /\ result = NoOutcome
    /\ (kind = "piece" /\ apResult.kind # "ok") => apResult.commitment = <<>>

C5_Witness ==
    /\ CopyReturned
    /\ piece_size = 254 /\ Len(out) = 512
    /\ apResult.kind = "err_mismatch"

\* C6: a source that yields zero bytes makes add_piece fail with the
\* short-read error once the copy has returned, never with the
\* size-mismatch error, and no Piece Info of size zero is ever returned.
C6_EmptySourceIsShortRead ==
    /\ (kind = "piece" /\ pc = "done" /\ srcLen = 0) =>
         /\ apResult.kind \in {"err_size", "err_io", "err_empty"}
         /\ eof => apResult.kind = "err_empty"
    /\ (CopyReturned /\ Len(out) = 0) => apResult.kind = "err_empty"
    /\ (kind = "piece" /\ apResult.kind = "ok") => apResult.size > 0

C6_Witness ==
    /\ CopyReturned
    /\ srcLen = 0 /\ piece_size = 127 /\ left_bytes = 127
    /\ apResult.kind = "err_empty"

\* C7: when add_piece succeeds, the target holds the left alignment zeros,
\* then the padded piece bytes, then the right alignment zeros; its length
\* is the sum of the three in padded units, and the returned total is
\* left_bytes + right_bytes + piece_size, the same amount in unpadded units.
C7_SizeConservation ==
    (kind = "piece" /\ apResult.kind = "ok") =>
      /\ Len(target) = ToPadded(left_bytes) + ToPadded(piece_size) + ToPadded(right_bytes)
      /\ apResult.written = left_bytes + right_bytes + piece_size
      /\ ToUnpadded(Len(target)) = apResult.written
      /\ target = Zeros(ToPadded(left_bytes))
                     \o SrcBytes(srcPat, 0, ToPadded(piece_size))
                     \o Zeros(ToPadded(right_bytes))

C7_Witness ==
    /\ kind = "piece" /\ apResult.kind = "ok"
    /\ piece_size = 508 /\ left_bytes = 127 /\ right_bytes = 127
    /\ srcPat = "ramp"

\* C8: a second ingestion of the same stream with the same chunk size, fed
\* in the same full reads, finishes with the commitment of the first.
C8_RepeatedIngestionSameCommitment ==
    (kind = "chunks" /\ run = 2 /\ status = "finished" /\ eof) => result = prev

\* C9: the bytes the read calls have returned are, in order, the bytes of
\* the source consumed so far, whatever reads, compute(), reset() and chunk
\* finalizations happened.
C9_PassThrough ==
    kind \in {"acc", "chunks"} => out = SrcBytes(srcPat, 0, srcPos)

C9_Witness ==
    /\ kind = "chunks" /\ srcPat = "ramp"
    /\ chunk_size = 128 /\ Len(chunk_roots) = 2
    /\ irregular = 1
    /\ srcLen = 256 /\ srcPos = srcLen /\ eof

\* C10: compute() on a Leaf Level and finish() on a Chunk Root List whose
\* length is not a power of two (zero included) end in an assertion
\* failure and never return a Domain.
C10_NonPowerOfTwoPanics ==
    /\ (kind = "acc" /\ ~IsPow2(Len(current_tree))) =>
         \A o \in ComputeOutcomes(current_tree) : o.kind = "panic"
    /\ (kind = "chunks" /\ status = "running" /\ ~IsPow2(Len(chunk_roots))) =>
         \A o \in FinishOutcomes(chunk_roots) : o.kind = "panic"


----------------------------------------------------------------------------
(* compute() against finish() *)

\* C11: on every list of Domains whose length is a power of two (1, 2, 4,
\* ...) compute() over a Leaf Level equal to the list and finish() over a
\* Chunk Root List equal to the list return the same Domain, and a list of
\* one Domain reduces to that Domain unchanged
C11_ComputeEqualsFinish ==
    (kind = "acc" /\ IsPow2(Len(current_tree)))
        => /\ ComputeOutcomes(current_tree) = FinishOutcomes(current_tree)
           /\ Len(current_tree) = 1
                  => ComputeOutcomes(current_tree) = {Returned(current_tree[1])}


----------------------------------------------------------------------------
(* The Chunk Root List *)

\* the Leaf Level of chunk j (from 1) of the stream: one leaf per 64-byte
\* window of bytes [(j-1)*csize, j*csize)
ChunkLeaves(pat, csize, j) ==
    [i \in 1..(csize \div BUFFER_LEN) |->
        Hash(SrcBytes(pat, (j - 1) * csize + (i - 1) * BUFFER_LEN, BUFFER_LEN))]

\* C12: once a stream of N * chunk_size bytes (chunk_size a multiple of 64)
\* has been read through the ChunksReader until the source reported its
\* end, chunk_roots has exactly N entries and entry j is a result of
\* compute() over the leaves of chunk j of the stream; and a read that
\* starts with read_pos below chunk_size leaves chunk_roots unchanged.
C12_OneRootPerChunk ==
    /\ [](  (/\ kind = "chunks" /\ status = "running" /\ eof
             /\ chunk_size % BUFFER_LEN = 0 /\ srcLen % chunk_size = 0)
          => /\ Len(chunk_roots) = srcLen \div chunk_size
             /\ \A j \in 1..Len(chunk_roots) :
                  Returned(chunk_roots[j])
                      \in ComputeOutcomes(ChunkLeaves(srcPat, chunk_size, j)))
    /\ [][(kind = "chunks" /\ read_pos < chunk_size) => chunk_roots' = chunk_roots]_vars


----------------------------------------------------------------------------
(* compute() and reset() on the accumulator *)

\* C13: a compute() call leaves current_tree, buffer, buffer_pos, the
\* source position and the bytes returned so far as they were, and a
\* second compute() right after one that returned a Domain returns that
\* same Domain.
C13_ComputeChangesNothing ==
    [][(kind = "acc" /\ computed' # computed)
         => /\ UNCHANGED <<buffer, buffer_pos, current_tree, srcPos, out>>
            /\ computed'.kind = "ok" => ComputeOutcomes(current_tree') = {computed'}]_vars


\* C14: reset() leaves an empty current_tree and buffer_pos 0 and neither
\* consumes nor rewinds the source, and the first leaf appended after a
\* reset() is the hash of the 64 stream bytes read after it and of nothing
\* that was in the buffer before.
C14_ResetStartsAfresh ==
    /\ []((kind = "acc" /\ resets >= 1 /\ Len(current_tree) >= 1)
            => current_tree[1] = Hash(SrcBytes(srcPat, resetPos, BUFFER_LEN)))
    /\ [][(kind = "acc" /\ resets' = resets + 1)
            => /\ current_tree' = <<>> /\ buffer_pos' = 0
               /\ srcPos' = srcPos /\ out' = out]_vars


----------------------------------------------------------------------------
(* End of stream *)

\* C15: whatever non-empty dest the next read is given, the Accumulator
\* offers the source a non-empty window (on its own and inside the
\* ChunksReader's read), so the read returns 0 only when the source is at
\* its end; and a read returned 0 for a non-empty dest only with the
\* source at its end.
C15_ZeroOnlyAtEndOfSource ==
    (kind \in {"acc", "chunks"} /\ status = "running")
        => /\ \A d \in DestLens \ {0} :
                LET cursor == IF kind = "acc" THEN buffer_pos ELSE CursorAfterBoundary
                    window == ReadWindow(cursor, d)
                IN  /\ window > 0
                    /\ 0 \in SourceReturns(srcPos, srcLen, window) => srcPos = srcLen
           /\ eof => srcPos = srcLen

C15_Witness ==
    /\ kind = "acc" /\ status = "running"
    /\ srcLen = 2 * BUFFER_LEN /\ srcPos = srcLen
    /\ eof /\ lastRet = 0
    /\ buffer_pos > 0


----------------------------------------------------------------------------
(* The cursor and the bytes consumed *)

\* C16: after any sequence of read, compute() and reset() calls, with the
\* source free to return short reads, buffer_pos is in [0, 64) and the
\* bytes consumed since construction or the last reset() are
\* 64 * (length of current_tree) + buffer_pos: a leaf is appended exactly
\* when 64 bytes have accumulated.
C16_ConsumedIsLeavesPlusCursor ==
    kind = "acc"
        => /\ buffer_pos \in 0..(BUFFER_LEN - 1)
           /\ srcPos - resetPos = BUFFER_LEN * Len(current_tree) + buffer_pos


\* C17: with chunk_size a multiple of 64, read_pos never exceeds
\* chunk_size and whenever a read is about to finalize a chunk buffer_pos
\* is 0, so the reset() at the boundary discards no byte that was not
\* hashed.
C17_ChunkCoversChunkSize ==
    (kind = "chunks" /\ chunk_size % BUFFER_LEN = 0)
        => /\ read_pos <= chunk_size
           /\ AtBoundary(read_pos, chunk_size) => buffer_pos = 0


----------------------------------------------------------------------------
(* Independence of the read splits *)

\* C18: the Leaf Level and the Chunk Root List depend only on the bytes of
\* the stream and on chunk_size, not on how the read calls split the bytes:
\* they are what reads of full 64-byte windows give. On the bare
\* CommitmentReader current_tree holds the leaves of the 64-byte windows
\* consumed; in the ChunksReader current_tree holds the leaves of the
\* windows read since the last finalized chunk and every chunk root is a
\* result of compute() over the leaves of its chunk.
C18_SplitsDoNotMatter ==
    /\ (kind = "acc" /\ resets = 0)
         => current_tree = StreamLeaves(srcPat, srcPos)
    /\ (kind = "chunks" /\ status = "running")
         => /\ \A j \in 1..Len(chunk_roots) :
                 Returned(chunk_roots[j])
                     \in ComputeOutcomes(ChunkLeaves(srcPat, chunk_size, j))
            /\ \A i \in 1..Len(current_tree) :
                 current_tree[i] =
                     Hash(SrcBytes(srcPat, Len(chunk_roots) * chunk_size
                                               + (i - 1) * BUFFER_LEN, BUFFER_LEN))


----------------------------------------------------------------------------
(* Failed reads *)

\* C19: a read in which the source returns an I/O error returns the error
\* and leaves buffer, buffer_pos and current_tree of the CommitmentReader as
\* they were (inside the ChunksReader's read: as the boundary test left
\* them), moves neither the source nor the bytes returned, and does not add
\* to read_pos; and the read that retries it ends in the state and returns
\* the bytes of the same read issued in place of the failed one.
C19_FailedReadChangesNothing ==
    [][(lastRet' = ReadErr /\ status = "running")
         => /\ srcPos' = srcPos /\ out' = out /\ buffer' = buffer
            /\ kind = "acc"
                 => buffer_pos' = buffer_pos /\ current_tree' = current_tree
            /\ kind = "chunks"
                 => /\ read_pos' = (IF AtBoundary(read_pos, chunk_size) THEN 0 ELSE read_pos)
                    /\ buffer_pos' = CursorAfterBoundary
                    /\ current_tree'
                         = (IF AtBoundary(read_pos, chunk_size) THEN <<>> ELSE current_tree)
                    /\ \A d \in DestLens :
                         \A k \in SourceReturns(srcPos, srcLen,
                                                ReadWindow(CursorAfterBoundary, d)) :
                            ChunksReadState(read_pos', chunk_roots', buffer', buffer_pos',
                                            current_tree', srcPos', d, k, NoOutcome)
                              = ChunksReadState(read_pos, chunk_roots, buffer, buffer_pos,
                                                current_tree, srcPos, d, k,
                                                IF AtBoundary(read_pos, chunk_size)
                                                THEN computed' ELSE NoOutcome)]_vars

C19_Witness ==
    /\ kind = "chunks" /\ status = "running"
    /\ lastRet = ReadErr
    /\ chunk_size = BUFFER_LEN /\ srcLen = 2 * BUFFER_LEN /\ srcPos = BUFFER_LEN
    /\ Len(chunk_roots) = 1 /\ read_pos = 0 /\ current_tree = <<>>


----------------------------------------------------------------------------
(* Reads at the end of the stream *)

\* C20: a read call appends at most one chunk root; and once a read of the
\* ChunksReader has returned 0 at the end of the source, no read finalizes
\* a chunk again: every further read returns 0 and leaves chunk_roots,
\* current_tree, buffer_pos and read_pos as they are, so finish() sees the
\* same Chunk Root List however many such reads were issued.
C20_NoFinalizationAfterEnd ==
    /\ [][kind = "chunks" => Len(chunk_roots') <= Len(chunk_roots) + 1]_vars
    /\ []((kind = "chunks" /\ status = "running" /\ eof)
            => /\ ~AtBoundary(read_pos, chunk_size)
               /\ \A d \in DestLens, o \in BoundaryOutcomes :
                    \A k \in SourceReturns(srcPos, srcLen, ReadWindow(CursorAfterBoundary, d)) :
                       LET st == ChunksReadState(read_pos, chunk_roots, buffer, buffer_pos,
                                                 current_tree, srcPos, d, k, o)
                       IN  /\ st.r = 0
                           /\ st.chunk_roots = chunk_roots
                           /\ st.current_tree = current_tree
                           /\ st.buffer_pos = buffer_pos
                           /\ st.read_pos = read_pos)

C20_Witness ==
    /\ kind = "chunks" /\ status = "running"
    /\ eof /\ lastRet = 0
    /\ chunk_size = 2 * BUFFER_LEN /\ srcLen = 4 * BUFFER_LEN
    /\ Len(chunk_roots) = 2 /\ read_pos = 0

====
